---- MODULE Spec2Model ----
(***************************************************************************)
(* Aspen (src/aspen.py): the two concurrent engines of AspenFramework,     *)
(* enumerate_subdomains and scan_ports, each fanning probe tasks out over  *)
(* a concurrent.futures.ThreadPoolExecutor and aggregating into a shared   *)
(* set (subdomains) or dict (open_ports).                                  *)
(*                                                                         *)
(* Strings are sequences of one-character strings, so that lower(),        *)
(* strip(), endswith() and the f-string "{sub}.{domain}" are computed.     *)
(* Python's None is the empty tuple <<>> and an int v is <<v>> wherever an *)
(* optional int is held (args.threads).                                    *)
(***************************************************************************)
EXTENDS Integers, Sequences, FiniteSets, TLC

\* ---------------------------------------------------------------- bounds
\* longest wordlist file, in lines
MaxWords == 2
\* most A records one DNS answer carries
MaxRdata == 2
\* how many of TrackedList's ports the model follows through a scan
MaxPorts == 2

\* ------------------------------------------------------ program constants
DEFAULT_THREADS == 10
\* range(1, 1025) and range(0, 65536) of scan_ports
TOP_FIRST == 1
TOP_STOP == 1025
FULL_FIRST == 0
FULL_STOP == 65536
\* resp[TCP].flags == 0x12
SYN_ACK == 18
\* response.status_code == 200
HTTP_OK == 200

\* ------------------------------------------------------------- strings
\* str.lower() on one character
LowerChar(c) ==
    CASE c = "W" -> "w"
      [] c = "M" -> "m"
      [] c = "S" -> "s"
      [] c = "E" -> "e"
      [] c = "C" -> "c"
      [] c = "O" -> "o"
      [] c = "N" -> "n"
      [] OTHER -> c

\* str.lower()
Lower(s) == [i \in 1..Len(s) |-> LowerChar(s[i])]

\* str.endswith(suffix)
EndsWith(s, suffix) ==
    /\ Len(s) >= Len(suffix)
    /\ SubSeq(s, Len(s) - Len(suffix) + 1, Len(s)) = suffix

\* str.strip(): leading and trailing whitespace removed
RECURSIVE Strip(_)
Strip(s) ==
    IF s = <<>> THEN s
    ELSE IF Head(s) = " " THEN Strip(Tail(s))
    ELSE IF s[Len(s)] = " " THEN Strip(SubSeq(s, 1, Len(s) - 1))
    ELSE s

\* (mutant) the label and the domain are joined without the dot
FqdnNoDot(sub, dom) == sub \o dom

\* f"{sub}.{domain}"
Fqdn(sub, dom) == sub \o <<".">> \o dom

\* (mutant) the suffix is the bare domain, without the dot
BareDomain(dom) == dom

\* f".{domain}"
DotDomain(dom) == <<".">> \o dom

\* ascending list of a finite set of integers: list(range(..)) restricted to S
RECURSIVE Ascending(_)
Ascending(S) ==
    IF S = {} THEN <<>>
    ELSE LET m == CHOOSE x \in S : \A y \in S : x <= y
         IN  <<m>> \o Ascending(S \ {m})

\* [f(x) for x in seq if p(x)] pieces
RECURSIVE StripLines(_)
StripLines(lines) ==
    IF lines = <<>> THEN <<>>
    ELSE LET h == Strip(Head(lines))
         IN  (IF h # <<>> THEN <<h>> ELSE <<>>) \o StripLines(Tail(lines))

\* ---------------------------------------------------------------- inputs
\* the domain argument of enumerate_subdomains
Domain == <<"e", ".", "c">>

\* lines a wordlist file may hold (the newline is dropped; blanks are kept)
Lines == { <<"w">>, <<" ", "M", " ">>, <<" ">> }

\* the file at args.wordlist or DEFAULT_WORDLIST: absent, present but not
\* readable as text (open() or the iteration raises), or a file of lines
WordFiles ==
    { [kind |-> "missing", lines |-> <<>>],
      [kind |-> "unreadable", lines |-> <<>>] }
    \cup { [kind |-> "file", lines |-> l] :
             l \in UNION { [1..n -> Lines] : n \in 0..MaxWords } }

\* --threads: not given (None), 0, a negative value, 1, 2
ThreadChoices == { <<>>, <<0>>, <<-1>>, <<1>>, <<2>> }

\* ports whose tasks the model follows; every other port of the range is
\* probed by a task of its own that shares nothing with these
TrackedList == <<0, 80, 443, 1025, 1024, 65535>>
Tracked == { TrackedList[i] : i \in 1..MaxPorts }

\* what sr1() gives back: None on timeout, an exception, or a packet
Pkt(tcp, flags) == [kind |-> "pkt", tcp |-> tcp, flags |-> flags]
NoReply == [kind |-> "none", tcp |-> FALSE, flags |-> 0]
Raises == [kind |-> "exc", tcp |-> FALSE, flags |-> 0]
Unsent == [kind |-> "unsent", tcp |-> FALSE, flags |-> 0]
\* SYN/ACK (0x12), RST/ACK (0x14), a reply without a TCP layer (ICMP)
SynReplies == { NoReply, Raises, Pkt(TRUE, 18), Pkt(TRUE, 20), Pkt(FALSE, 0) }
\* RST (0x04) to the bare ACK
AckReplies == { NoReply, Raises, Pkt(TRUE, 4) }

\* one crt.sh record: a dict with a str under 'name_value', or anything else
Entry(name) == [ok |-> TRUE, name_value |-> name]
Malformed == [ok |-> FALSE, name_value |-> <<>>]
\* what requests.get() + response.json() give back
HttpError == [kind |-> "error", status |-> 0, json |-> FALSE, data |-> <<>>]
HttpResp(status, json, data) ==
    [kind |-> "resp", status |-> status, json |-> json, data |-> data]
NoResponse == [kind |-> "none", status |-> 0, json |-> FALSE, data |-> <<>>]
PassiveStubs ==
    { HttpError,
      HttpResp(404, TRUE, <<Entry(<<"s", ".", "e", ".", "c">>)>>),
      HttpResp(200, FALSE, <<>>),
      HttpResp(200, TRUE, <<>>),
      HttpResp(200, TRUE, <<Entry(<<"S", ".", "e", ".", "c">>), Malformed,
                            Entry(<<"m", ".", "e", ".", "c">>)>>),
      HttpResp(200, TRUE, <<Entry(<<"o", ".", "n">>),
                            Entry(<<"m", ".", "e", ".", "c">>)>>),
      HttpResp(200, TRUE, <<Entry(<<"e", ".", "c">>),
                            Entry(<<"x", "e", ".", "c">>),
                            Entry(<<"S", ".", "E", ".", "C">>)>>) }

\* ----------------------------------------------------------------- state
VARIABLES
    mode,        \* which engine the caller invokes: "enum" or "scan"
    args,        \* the argparse namespace: threads, silent, save, top_ports
    net,         \* the network: the ports followed, the replies sr1() may give
    wordfile,    \* the wordlist file on disk
    pc,          \* the calling thread's position in the engine
    subs,        \* enumerate_subdomains: the stripped wordlist labels
    ports,       \* scan_ports: the (tracked) ports of the range, ascending
    fut,         \* futures, in submission order: each task's position
    nThreads,    \* ThreadPoolExecutor._threads: worker threads spawned
    idleSem,     \* ThreadPoolExecutor._idle_semaphore
    advanced,    \* progress.update(task, advance=1) calls made
    subdomains,  \* the shared set of enumerate_subdomains
    open_ports,  \* the shared dict of scan_ports
    resolved,    \* the resolver's answers so far: name -> number of A records
    response,    \* the passive source's answer
    warned,      \* self.log(.., "warning") calls made
    printed,     \* warnings that reached the console
    saved,       \* save_results wrote the result file
    cancelled,   \* KeyboardInterrupt was delivered to the calling thread
    result,      \* the value returned to the caller
    error        \* the exception that escaped to the caller

vars == <<mode, args, net, wordfile, pc, subs, ports, fut, nThreads, idleSem,
          advanced, subdomains, open_ports, resolved, response, warned,
          printed, saved, cancelled, result, error>>

\* a future's task: where its thread is, and what its probes answered
Task(st) == [st |-> st, runs |-> 0, dns |-> -1, left |-> 0,
             service |-> "unknown", syn |-> Unsent, ack |-> Unsent]

Running(i) == fut[i].st \notin {"pending", "finished"}
Active == { i \in 1..Len(fut) : Running(i) }
Finished == { i \in 1..Len(fut) : fut[i].st = "finished" }

\* self.args.threads or DEFAULT_THREADS
Threads(a) ==
    IF a.threads = <<>> \/ a.threads[1] = 0 THEN DEFAULT_THREADS
    ELSE a.threads[1]

\* (mutant) the full scan starts at port 1 like the top scan
PortRangeFromOne(a) ==
    IF a.top_ports THEN TOP_FIRST..(TOP_STOP - 1)
    ELSE TOP_FIRST..(FULL_STOP - 1)

\* list(range(1, 1025)) if self.args.top_ports else list(range(0, 65536))
PortRange(a) ==
    IF a.top_ports THEN TOP_FIRST..(TOP_STOP - 1)
    ELSE FULL_FIRST..(FULL_STOP - 1)

\* the task list of the running engine
NTasks == IF mode = "enum" THEN Len(subs) ELSE Len(ports)

Init ==
    /\ mode \in {"enum", "scan"}
    /\ args \in [threads : ThreadChoices, silent : BOOLEAN, save : BOOLEAN,
                 top_ports : BOOLEAN]
    \* scan_ports reads neither args.wordlist nor (for warnings) args.silent;
    \* enumerate_subdomains does not read args.top_ports
    /\ mode = "enum" => ~args.top_ports
    /\ mode = "scan" => ~args.silent
    /\ net = [tracked |-> Tracked, syn |-> SynReplies]
    /\ wordfile \in WordFiles
    /\ mode = "scan" => wordfile.kind = "missing"
    /\ pc = "call"
    /\ subs = <<>>
    /\ ports = <<>>
    /\ fut = <<>>
    /\ nThreads = 0
    /\ idleSem = 0
    /\ advanced = 0
    /\ subdomains = {}
    /\ open_ports = <<>>
    /\ resolved = <<>>
    /\ response = NoResponse
    /\ warned = 0
    /\ printed = 0
    /\ saved = FALSE
    /\ cancelled = FALSE
    /\ result = "none"
    /\ error = "none"

\* ------------------------------------------------- the calling thread
\* ThreadPoolExecutor(max_workers=n): ValueError unless n > 0
PoolAccepts(n) == n > 0

\* (mutant) no os.path.exists test: open() of a missing file raises
EnumStartOpensBlindly ==
    /\ pc = "call"
    /\ mode = "enum"
    /\ subdomains' = {}
    /\ CASE wordfile.kind \in {"missing", "unreadable"} ->
              /\ pc' = "raised"
              /\ error' = "OSError"
              /\ UNCHANGED subs
         [] OTHER ->
              /\ subs' = StripLines(wordfile.lines)
              /\ IF PoolAccepts(Threads(args))
                 THEN pc' = "pool" /\ UNCHANGED error
                 ELSE pc' = "raised" /\ error' = "ValueError"
    /\ UNCHANGED <<mode, args, net, wordfile, ports, fut, nThreads, idleSem,
                   advanced, open_ports, resolved, response, warned, printed,
                   saved, cancelled, result>>

\* enumerate_subdomains up to the creation of the pool: the wordlist is read
\* if the file exists; without it the engine goes straight to the API query
EnumStart ==
    /\ pc = "call"
    /\ mode = "enum"
    /\ subdomains' = {}
    /\ CASE wordfile.kind = "missing" ->
              /\ pc' = "api"
              /\ UNCHANGED <<subs, error>>
         [] wordfile.kind = "unreadable" ->
              /\ pc' = "raised"
              /\ error' = "OSError"
              /\ UNCHANGED subs
         [] OTHER ->
              /\ subs' = StripLines(wordfile.lines)
              /\ IF PoolAccepts(Threads(args))
                 THEN pc' = "pool" /\ UNCHANGED error
                 ELSE pc' = "raised" /\ error' = "ValueError"
    /\ UNCHANGED <<mode, args, net, wordfile, ports, fut, nThreads, idleSem,
                   advanced, open_ports, resolved, response, warned, printed,
                   saved, cancelled, result>>

\* scan_ports up to the creation of the pool
ScanStart ==
    /\ pc = "call"
    /\ mode = "scan"
    /\ open_ports' = <<>>
    /\ ports' = Ascending(PortRange(args) \cap net.tracked)
    /\ IF PoolAccepts(Threads(args))
       THEN pc' = "pool" /\ UNCHANGED error
       ELSE pc' = "raised" /\ error' = "ValueError"
    /\ UNCHANGED <<mode, args, net, wordfile, subs, fut, nThreads, idleSem,
                   advanced, subdomains, resolved, response, warned, printed,
                   saved, cancelled, result>>

\* (mutant) the thread count is compared with <= : one thread too many
SpawnsThreadOffByOne == idleSem = 0 /\ nThreads <= Threads(args)

\* ThreadPoolExecutor._adjust_thread_count: a thread is spawned unless an
\* idle one is signalled or max_workers threads exist
SpawnsThread == idleSem = 0 /\ nThreads < Threads(args)

\* executor.submit(task, x): the next element of the list comprehension
Submit ==
    /\ pc = "pool"
    /\ Len(fut) < NTasks
    /\ fut' = Append(fut, Task("pending"))
    /\ IF idleSem > 0
       THEN idleSem' = idleSem - 1 /\ UNCHANGED nThreads
       ELSE /\ nThreads' = IF SpawnsThread THEN nThreads + 1 ELSE nThreads
            /\ UNCHANGED idleSem
    /\ UNCHANGED <<mode, args, net, wordfile, pc, subs, ports, advanced,
                   subdomains, open_ports, resolved, response, warned,
                   printed, saved, cancelled, result, error>>

\* for future in as_completed(futures): progress.update(task, advance=1)
AsCompleted ==
    /\ pc = "pool"
    /\ Len(fut) = NTasks
    /\ advanced < Cardinality(Finished)
    /\ advanced' = advanced + 1
    /\ UNCHANGED <<mode, args, net, wordfile, pc, subs, ports, fut, nThreads,
                   idleSem, subdomains, open_ports, resolved, response,
                   warned, printed, saved, cancelled, result, error>>

\* (mutant) the caller goes on after the first completion, without joining
FirstYielded == advanced >= 1 \/ NTasks = 0

\* as_completed(futures) is exhausted: every future was yielded
AllYielded == advanced = NTasks

\* the loop ends once every future was yielded; the with block's __exit__
\* (shutdown(wait=True)) then finds every thread idle
ExitPool ==
    /\ pc = "pool"
    /\ Len(fut) = NTasks
    /\ AllYielded
    /\ pc' = IF mode = "enum" THEN "api" ELSE "table"
    /\ UNCHANGED <<mode, args, net, wordfile, subs, ports, fut, nThreads, idleSem,
                   advanced, subdomains, open_ports, resolved, response,
                   warned, printed, saved, cancelled, result, error>>

\* a user interrupt (KeyboardInterrupt) reaches the calling thread while it
\* submits or waits: the exception leaves the with block through __exit__
Cancel ==
    /\ pc = "pool"
    /\ cancelled' = TRUE
    /\ pc' = "unwind"
    /\ UNCHANGED <<mode, args, net, wordfile, subs, ports, fut, nThreads, idleSem,
                   advanced, subdomains, open_ports, resolved, response,
                   warned, printed, saved, result, error>>

\* ThreadPoolExecutor.__exit__ = shutdown(wait=True): the threads are joined,
\* and they leave only when the work queue is drained
Joined == \A i \in 1..Len(fut) : fut[i].st = "finished"

Unwind ==
    /\ pc = "unwind"
    /\ Joined
    /\ pc' = "raised"
    /\ error' = "KeyboardInterrupt"
    /\ UNCHANGED <<mode, args, net, wordfile, subs, ports, fut, nThreads, idleSem,
                   advanced, subdomains, open_ports, resolved, response,
                   warned, printed, saved, cancelled, result>>

\* --------------------------------------------------------- worker threads
\* a worker thread is free, and i is the head of the work queue
Dequeues(i) ==
    /\ fut[i].st = "pending"
    /\ \A j \in 1..(i - 1) : fut[j].st # "pending"
    /\ Cardinality(Active) < nThreads

\* _worker: work_item = work_queue.get(); work_item.run()
Start(i) ==
    /\ Dequeues(i)
    /\ fut' = [fut EXCEPT ![i].st = IF mode = "enum" THEN "resolve" ELSE "syn",
                          ![i].runs = @ + 1]
    /\ UNCHANGED <<mode, args, net, wordfile, pc, subs, ports, nThreads, idleSem,
                   advanced, subdomains, open_ports, resolved, response,
                   warned, printed, saved, cancelled, result, error>>

\* the number of A records dns.resolver.resolve(name, 'A') answers with;
\* 0 stands for every exception (NXDOMAIN, NoAnswer, timeout, ImportError).
\* The resolver is a stub with fixed answers: a name asked twice answers alike.
DnsAnswers(name) ==
    IF name \in DOMAIN resolved THEN {resolved[name]} ELSE 0..MaxRdata

\* (mutant) no except clause, and the caller asks the future for its result:
\* the resolver's exception reaches the caller
ResolveUnguarded(i) ==
    /\ fut[i].st = "resolve"
    /\ \E n \in DnsAnswers(Fqdn(subs[i], Domain)) :
         /\ resolved' = (Fqdn(subs[i], Domain) :> n) @@ resolved
         /\ IF n = 0
            THEN /\ fut' = [fut EXCEPT ![i].st = "finished", ![i].dns = n]
                 /\ idleSem' = idleSem + 1
                 /\ pc' = "raised"
                 /\ error' = "NXDOMAIN"
            ELSE /\ fut' = [fut EXCEPT ![i].st = "add", ![i].dns = n,
                                       ![i].left = n]
                 /\ UNCHANGED <<idleSem, pc, error>>
    /\ UNCHANGED <<mode, args, net, wordfile, subs, ports, nThreads, advanced,
                   subdomains, open_ports, response, warned, printed, saved,
                   cancelled, result>>

\* check_subdomain: answers = dns.resolver.resolve(f"{sub}.{domain}", 'A');
\* an exception lands in except: pass
Resolve(i) ==
    /\ fut[i].st = "resolve"
    /\ \E n \in DnsAnswers(Fqdn(subs[i], Domain)) :
         /\ resolved' = (Fqdn(subs[i], Domain) :> n) @@ resolved
         /\ IF n = 0
            THEN /\ fut' = [fut EXCEPT ![i].st = "finished", ![i].dns = n]
                 /\ idleSem' = idleSem + 1
            ELSE /\ fut' = [fut EXCEPT ![i].st = "add", ![i].dns = n,
                                       ![i].left = n]
                 /\ UNCHANGED idleSem
    /\ UNCHANGED <<mode, args, net, wordfile, pc, subs, ports, nThreads, advanced,
                   subdomains, open_ports, response, warned, printed, saved,
                   cancelled, result, error>>

\* (mutant) the candidate is lower-cased before it is added
CandidateLower(sub) == Fqdn(Lower(sub), Domain)

\* the name check_subdomain adds for wordlist entry sub
Candidate(sub) == Fqdn(sub, Domain)

\* (mutant) the set is rebound to a one-element set: earlier adds are lost
SetRebound(s, x) == {x}

\* s.add(x)
SetAdd(s, x) == s \cup {x}

\* check_subdomain: for rdata in answers: subdomains.add(f"{sub}.{domain}")
AddName(i) ==
    /\ fut[i].st = "add"
    /\ subdomains' = SetAdd(subdomains, Candidate(subs[i]))
    /\ IF fut[i].left = 1
       THEN /\ fut' = [fut EXCEPT ![i].st = "finished", ![i].left = 0]
            /\ idleSem' = idleSem + 1
       ELSE /\ fut' = [fut EXCEPT ![i].left = @ - 1]
            /\ UNCHANGED idleSem
    /\ UNCHANGED <<mode, args, net, wordfile, pc, subs, ports, nThreads, advanced,
                   open_ports, resolved, response, warned, printed, saved,
                   cancelled, result, error>>

\* (mutant) the flags are not looked at: any TCP reply counts as open
SynOpenAnyTcp(resp) == resp.kind = "pkt" /\ resp.tcp

\* scan_port: resp and resp.haslayer(TCP) and resp[TCP].flags == 0x12
SynOpen(resp) == resp.kind = "pkt" /\ resp.tcp /\ resp.flags = SYN_ACK

\* scan_port: banner and banner.haslayer(TCP)
BannerSeen(banner) == banner.kind = "pkt" /\ banner.tcp

\* scan_port: resp = sr1(IP(dst=target)/TCP(dport=port, flags="S"), ..); an
\* exception lands in the outer except: pass
Syn(i) ==
    /\ fut[i].st = "syn"
    /\ \E resp \in net.syn :
         IF resp.kind # "exc" /\ SynOpen(resp)
         THEN /\ fut' = [fut EXCEPT ![i].st = "ack", ![i].syn = resp,
                                    ![i].service = "unknown"]
              /\ UNCHANGED idleSem
         ELSE /\ fut' = [fut EXCEPT ![i].st = "finished", ![i].syn = resp]
              /\ idleSem' = idleSem + 1
    /\ UNCHANGED <<mode, args, net, wordfile, pc, subs, ports, nThreads, advanced,
                   subdomains, open_ports, resolved, response, warned,
                   printed, saved, cancelled, result, error>>

\* (mutant) no inner try: an exception of the second probe lands in the outer
\* except: pass and the open port is never stored
AckUnguarded(i) ==
    /\ fut[i].st = "ack"
    /\ \E banner \in AckReplies :
         /\ fut' = [fut EXCEPT ![i].st = IF banner.kind = "exc" THEN "finished"
                                         ELSE "store",
                               ![i].ack = banner,
                               ![i].service =
                                   IF banner.kind # "exc" /\ BannerSeen(banner)
                                   THEN "detected" ELSE @]
         /\ idleSem' = IF banner.kind = "exc" THEN idleSem + 1 ELSE idleSem
    /\ UNCHANGED <<mode, args, net, wordfile, pc, subs, ports, nThreads,
                   advanced, subdomains, open_ports, resolved, response,
                   warned, printed, saved, cancelled, result, error>>

\* scan_port: banner = sr1(IP(dst=target)/TCP(dport=port, flags="A"), ..); an
\* exception lands in the inner except: pass
Ack(i) ==
    /\ fut[i].st = "ack"
    /\ \E banner \in AckReplies :
         fut' = [fut EXCEPT ![i].st = "store", ![i].ack = banner,
                            ![i].service =
                                IF banner.kind # "exc" /\ BannerSeen(banner)
                                THEN "detected" ELSE @]
    /\ UNCHANGED <<mode, args, net, wordfile, pc, subs, ports, nThreads, idleSem,
                   advanced, subdomains, open_ports, resolved, response,
                   warned, printed, saved, cancelled, result, error>>

\* (mutant) the dict is rebound to a one-entry dict: the last writer wins
Rebound(d, k, v) == (k :> v)

\* d[k] = v
SetItem(d, k, v) == (k :> v) @@ d

\* scan_port: open_ports[port] = service
Store(i) ==
    /\ fut[i].st = "store"
    /\ open_ports' = SetItem(open_ports, ports[i], fut[i].service)
    /\ fut' = [fut EXCEPT ![i].st = "finished"]
    /\ idleSem' = idleSem + 1
    /\ UNCHANGED <<mode, args, net, wordfile, pc, subs, ports, nThreads, advanced,
                   subdomains, resolved, response, warned, printed, saved,
                   cancelled, result, error>>

\* ------------------------------------------------ after the pool has left
\* the for loop over response.json(): names added before the first record
\* that raises (KeyError, AttributeError, TypeError), and whether one raised
RECURSIVE ParseEntries(_, _)
ParseEntries(data, dom) ==
    IF data = <<>> THEN [names |-> {}, exc |-> FALSE]
    ELSE IF ~Head(data).ok THEN [names |-> {}, exc |-> TRUE]
    ELSE LET sub == Lower(Head(data).name_value)
             rest == ParseEntries(Tail(data), dom)
         IN  [names |-> (IF EndsWith(sub, DotDomain(dom)) THEN {sub} ELSE {})
                            \cup rest.names,
              exc |-> rest.exc]

\* (mutant) the names are collected first and added only if no record raised
PassiveAllOrNothing(r, dom) ==
    IF r.kind = "error" THEN [names |-> {}, exc |-> TRUE]
    ELSE IF r.status # HTTP_OK THEN [names |-> {}, exc |-> FALSE]
    ELSE IF ~r.json THEN [names |-> {}, exc |-> TRUE]
    ELSE [names |-> IF ParseEntries(r.data, dom).exc THEN {}
                    ELSE ParseEntries(r.data, dom).names,
          exc |-> ParseEntries(r.data, dom).exc]

\* the try block of the API fallback: the names it adds, and whether the
\* except clause is entered
Passive(r, dom) ==
    IF r.kind = "error" THEN [names |-> {}, exc |-> TRUE]
    ELSE IF r.status # HTTP_OK THEN [names |-> {}, exc |-> FALSE]
    ELSE IF ~r.json THEN [names |-> {}, exc |-> TRUE]
    ELSE ParseEntries(r.data, dom)

\* log(message, "warning"): nothing is printed in silent mode
LogPrints(a) == ~a.silent

\* (mutant) the passive names replace the set instead of joining it
SetAssigned(s, t) == t

\* for .. in data: .. s.add(sub), over the names t the loop reaches
SetUpdate(s, t) == s \cup t

\* the crt.sh query; except: self.log("API fallback failed", "warning")
ApiFallback ==
    /\ pc = "api"
    /\ \E r \in PassiveStubs :
         /\ response' = r
         /\ subdomains' = SetUpdate(subdomains, Passive(r, Domain).names)
         /\ IF Passive(r, Domain).exc
            THEN /\ warned' = warned + 1
                 /\ printed' = IF LogPrints(args) THEN printed + 1 ELSE printed
            ELSE UNCHANGED <<warned, printed>>
    /\ pc' = "save"
    /\ UNCHANGED <<mode, args, net, wordfile, subs, ports, fut, nThreads, idleSem,
                   advanced, open_ports, resolved, saved, cancelled, result,
                   error>>

\* save_results: if not self.args.save: return
Saves(a) == a.save

\* result = "\n".join(sorted(subdomains)); save_results(..); return subdomains
EnumReturn ==
    /\ pc = "save"
    /\ saved' = Saves(args)
    /\ result' = subdomains
    /\ pc' = "returned"
    /\ UNCHANGED <<mode, args, net, wordfile, subs, ports, fut, nThreads, idleSem,
                   advanced, subdomains, open_ports, resolved, response,
                   warned, printed, cancelled, error>>

\* the table is printed; save_results(open_ports, ..); return open_ports
ScanReturn ==
    /\ pc = "table"
    /\ saved' = Saves(args)
    /\ result' = open_ports
    /\ pc' = "returned"
    /\ UNCHANGED <<mode, args, net, wordfile, subs, ports, fut, nThreads, idleSem,
                   advanced, subdomains, open_ports, resolved, response,
                   warned, printed, cancelled, error>>

\* ------------------------------------------------------- specifications
Starts == \E i \in 1..Len(fut) : Start(i)
Resolves == \E i \in 1..Len(fut) : Resolve(i)
AddNames == \E i \in 1..Len(fut) : AddName(i)
Syns == \E i \in 1..Len(fut) : Syn(i)
Acks == \E i \in 1..Len(fut) : Ack(i)
Stores == \E i \in 1..Len(fut) : Store(i)

\* every step of the engine's own threads
Run ==
    \/ EnumStart
    \/ ScanStart
    \/ Submit
    \/ AsCompleted
    \/ ExitPool
    \/ Unwind
    \/ ApiFallback
    \/ EnumReturn
    \/ ScanReturn
    \/ Starts
    \/ Resolves
    \/ AddNames
    \/ Syns
    \/ Acks
    \/ Stores

\* ... and the user's interrupt
Next == Run \/ Cancel

Spec == Init /\ [][Next]_vars

\* the threads are the operating system's: a thread that can take a step
\* takes one, and every probe ends by a reply, an exception or its timeout
FairSpec == Spec /\ WF_vars(Run)

\* ------------------------------------------- the port scan at its borders
\* the ports around the two ends of range(1, 1025) and range(0, 65536)
BoundaryPorts ==
    { FULL_FIRST, TOP_FIRST, TOP_STOP - 1, TOP_STOP, FULL_STOP - 1, FULL_STOP }

\* scan_ports called with or without --top-ports, two worker threads, and the
\* tasks of MaxPorts border ports followed
RangeInit ==
    /\ mode = "scan"
    /\ args \in [threads : {<<2>>}, silent : {FALSE}, save : {FALSE},
                 top_ports : BOOLEAN]
    /\ net \in [tracked : { T \in SUBSET BoundaryPorts :
                               Cardinality(T) = MaxPorts },
                 syn : {{NoReply, Pkt(TRUE, SYN_ACK)}}]
    /\ wordfile \in { w \in WordFiles : w.kind = "missing" }
    /\ pc = "call"
    /\ subs = <<>>
    /\ ports = <<>>
    /\ fut = <<>>
    /\ nThreads = 0
    /\ idleSem = 0
    /\ advanced = 0
    /\ subdomains = {}
    /\ open_ports = <<>>
    /\ resolved = <<>>
    /\ response = NoResponse
    /\ warned = 0
    /\ printed = 0
    /\ saved = FALSE
    /\ cancelled = FALSE
    /\ result = "none"
    /\ error = "none"

\* the steps of scan_ports and of its worker threads
RangeNext ==
    \/ ScanStart
    \/ Submit
    \/ AsCompleted
    \/ ExitPool
    \/ ScanReturn
    \/ Starts
    \/ Syns
    \/ Acks
    \/ Stores

RangeSpec == RangeInit /\ [][RangeNext]_vars

\* ------------------------------------------- the port scan and TCP flags
\* scan_ports of one port whose reply to the SYN probe is nothing, not TCP,
\* or TCP with any combination of the eight flag bits FIN .. CWR
FlagInit ==
    /\ mode = "scan"
    /\ args \in [threads : {<<1>>}, silent : {FALSE}, save : BOOLEAN,
                 top_ports : BOOLEAN]
    /\ net = [tracked |-> {80},
              syn |-> {NoReply, Pkt(FALSE, 0)}
                        \cup { Pkt(TRUE, f) : f \in 0..255 }]
    /\ wordfile \in { w \in WordFiles : w.kind = "missing" }
    /\ pc = "call"
    /\ subs = <<>>
    /\ ports = <<>>
    /\ fut = <<>>
    /\ nThreads = 0
    /\ idleSem = 0
    /\ advanced = 0
    /\ subdomains = {}
    /\ open_ports = <<>>
    /\ resolved = <<>>
    /\ response = NoResponse
    /\ warned = 0
    /\ printed = 0
    /\ saved = FALSE
    /\ cancelled = FALSE
    /\ result = "none"
    /\ error = "none"

FlagSpec == FlagInit /\ [][RangeNext]_vars

\* ---------------------------------------------------------------- claims
\* the configured limit C: args.threads, or 10 when it is unset
Limit == IF args.threads = <<>> \/ args.threads[1] = 0 THEN 10
         ELSE args.threads[1]

\* C1: in both engines the number of probe tasks running at the same time
\* never exceeds the configured limit C, however many tasks were submitted
\* (and no task runs at all under a limit below 1).
C1_ConcurrencyBound ==
    /\ Limit > 0 => Cardinality(Active) <= Limit
    /\ Limit <= 0 => Active = {}

\* C1 witness: a scan at limit 1 with as many tasks as the limit or more, one
\* probe in flight and the next one held in the queue
C1_Witness ==
    /\ mode = "scan"
    /\ args.threads = <<1>>
    /\ NTasks >= Limit
    /\ Cardinality(Active) = Limit
    /\ \E i \in 1..Len(fut) : fut[i].st = "pending"

\* every task of the list was submitted, ran once and is finished
AllRanOnce ==
    /\ Len(fut) = NTasks
    /\ \A i \in 1..Len(fut) : fut[i].st = "finished" /\ fut[i].runs = 1

\* the call has come back to its caller, or was interrupted, or was refused
Over == pc = "returned" \/ cancelled \/ error # "none"

\* C2: every submitted probe task executes exactly once, the engine returns
\* only after all N submitted tasks have completed, and under fair scheduling
\* the call eventually returns (unless interrupted or refused at the start).
C2_ExactlyOnceThenReturn ==
    /\ [](\A i \in 1..Len(fut) : fut[i].runs <= 1)
    /\ [](pc \in {"api", "table", "save", "returned"} => AllRanOnce)
    /\ <>Over

\* C2 witness: a call that returned after its two tasks had run
C2_Witness ==
    /\ pc = "returned"
    /\ NTasks = 2
    /\ AllRanOnce

\* task i's probe failed: the resolver raised, or sr1 raised or timed out
ProbeFailed(i) ==
    \/ fut[i].dns = 0
    \/ fut[i].syn.kind \in {"none", "exc"}
    \/ fut[i].ack.kind = "exc"

SomeProbeFailed == \E i \in 1..Len(fut) : ProbeFailed(i)

\* C3: a failed probe (DNS error, timeout, NXDOMAIN, a SYN probe raising or
\* timing out) never escapes the engine and never stops the other tasks: no
\* error reaches the caller because of it, every submitted probe still runs,
\* and the engine still returns a result.
C3_ProbeFailureContained ==
    /\ [](SomeProbeFailed /\ ~cancelled => error = "none" /\ pc # "raised")
    /\ [](SomeProbeFailed /\ pc = "returned" => AllRanOnce)
    /\ (SomeProbeFailed ~> (pc = "returned" \/ cancelled))

\* C3 witness: the scan returned although its first SYN probe raised and the
\* second port's ACK probe raised; the second port, found open, is recorded
C3_Witness ==
    /\ pc = "returned"
    /\ mode = "scan"
    /\ NTasks = 2
    /\ fut[1].syn.kind = "exc"
    /\ fut[2].ack.kind = "exc"
    /\ AllRanOnce
    /\ ports[2] \in DOMAIN result

\* bit b (a power of two) is set in flags
HasFlag(flags, b) == (flags \div b) % 2 = 1

\* the reply bears both SYN (0x02) and ACK (0x10)
RepliedSynAck(resp) ==
    /\ resp.kind = "pkt"
    /\ resp.tcp
    /\ HasFlag(resp.flags, 2)
    /\ HasFlag(resp.flags, 16)

\* C4: the Port Result map, while the scan runs and when it is returned, has
\* no entry for a port whose SYN probe got no reply, an RST reply, a reply
\* without a TCP layer, or an exception: only Open ports are recorded.
C4_OnlyOpenRecorded ==
    \A i \in 1..Len(fut) :
        mode = "scan" /\ ~RepliedSynAck(fut[i].syn) =>
            /\ ports[i] \notin DOMAIN open_ports
            /\ (pc = "returned" /\ mode = "scan" => ports[i] \notin DOMAIN result)

\* C4 witness: a returned scan with an RST port and an open one
C4_Witness ==
    /\ pc = "returned"
    /\ mode = "scan"
    /\ NTasks = 2
    /\ fut[1].syn = Pkt(TRUE, 20)
    /\ fut[2].syn = Pkt(TRUE, 18)
    /\ DOMAIN result = {ports[2]}

\* the candidates of the wordlist the resolver confirmed
Confirmed ==
    { n \in { subs[i] \o <<".">> \o Domain : i \in 1..Len(subs) } :
        n \in DOMAIN resolved /\ resolved[n] > 0 }

\* the passive source gave nothing to add
NoPassiveContribution ==
    \/ response.kind = "error"
    \/ response.status # 200
    \/ ~response.json
    \/ response.data = <<>>

\* C5: with no contribution of the passive source, enumerate_subdomains
\* returns exactly the candidates label + "." + domain of the wordlist that
\* the resolver confirms: none is missing and no other name is present.
C5_ExactlyConfirmed ==
    pc = "returned" /\ mode = "enum" /\ NoPassiveContribution =>
        /\ \A i \in 1..Len(subs) : (subs[i] \o <<".">> \o Domain) \in DOMAIN resolved
        /\ result = Confirmed

\* C5 witness (scenario A): of two labels the resolver confirms the first only
C5_Witness ==
    /\ pc = "returned"
    /\ mode = "enum"
    /\ NoPassiveContribution
    /\ subs = << <<"w">>, <<"M">> >>
    /\ resolved[<<"w", ".", "e", ".", "c">>] > 0
    /\ resolved[<<"M", ".", "e", ".", "c">>] = 0
    /\ result = { <<"w", ".", "e", ".", "c">> }

\* the names of the records read before the first record that cannot be read
RECURSIVE NamesBeforeFailure(_)
NamesBeforeFailure(data) ==
    IF data = <<>> \/ ~Head(data).ok THEN {}
    ELSE LET low == [k \in 1..Len(Head(data).name_value) |->
                        LowerChar(Head(data).name_value[k])]
             suf == <<".">> \o Domain
         IN  (IF Len(low) >= Len(suf)
                 /\ SubSeq(low, Len(low) - Len(suf) + 1, Len(low)) = suf
              THEN {low} ELSE {})
             \cup NamesBeforeFailure(Tail(data))

\* what the passive source contributes, from its answer alone
PassiveNames ==
    IF response.kind = "resp" /\ response.status = 200 /\ response.json
    THEN NamesBeforeFailure(response.data) ELSE {}

\* the map the recorded probe answers determine: every port answered with
\* SYN/ACK, labelled by whether the second probe was answered over TCP
PortMap ==
    [ p \in { ports[i] : i \in { j \in 1..Len(fut) : fut[j].syn = Pkt(TRUE, 18) } }
        |-> LET i == CHOOSE j \in 1..Len(fut) : ports[j] = p
            IN  IF fut[i].ack.kind = "pkt" /\ fut[i].ack.tcp
                THEN "detected" ELSE "unknown" ]

\* C6: the returned Subdomain Set and Port Result map are functions of the
\* probe answers alone (resolver, passive source, SYN and ACK replies): every
\* interleaving and completion order, and every rerun against the same
\* answers, returns the same result.
C6_ResultDeterminedByAnswers ==
    /\ pc = "returned" /\ mode = "enum" => result = Confirmed \cup PassiveNames
    /\ pc = "returned" /\ mode = "scan" => result = PortMap

\* C6 witness: a returned scan, run two probes at a time, whose two ports
\* answered SYN/ACK, one answering the second probe and one not
C6_Witness ==
    /\ pc = "returned"
    /\ mode = "scan"
    /\ args.threads = <<2>>
    /\ NTasks = 2
    /\ fut[1].syn = Pkt(TRUE, 18) /\ fut[1].ack = Pkt(TRUE, 4)
    /\ fut[2].syn = Pkt(TRUE, 18) /\ fut[2].ack = NoReply
    /\ result = (ports[1] :> "detected") @@ (ports[2] :> "unknown")

\* the only raw-packet call made so far is task i's SYN probe, and it raised
FirstCallRaised(i) ==
    /\ fut[i].syn.kind = "exc"
    /\ \A j \in 1..Len(fut) : j # i => fut[j].syn.kind = "unsent"

\* C7: when the first raw-packet call reports a permission error, scan_ports
\* surfaces a fatal error to the caller before attempting the remaining
\* ports: no further port is probed and the call does not return normally.
C7_FatalOnFirstPermissionError ==
    [][ (\E i \in 1..Len(fut) : FirstCallRaised(i)) =>
          /\ \A j \in 1..Len(fut) : fut'[j].syn = fut[j].syn
          /\ pc' # "returned" ]_vars

\* C8: once cancellation is signalled mid-run, no task that has not started is
\* started, and the call returns (rather than raises) the partial
\* aggregation without waiting for the tasks not yet dispatched.
C8_CancelStopsDispatch ==
    [][ cancelled /\ Len(fut) > 0 =>
          /\ \A i \in 1..Len(fut) : fut[i].st = "pending" => fut'[i].st = "pending"
          /\ pc' # "raised" ]_vars

\* the passive query failed: network error, non-200 status, unparsable body,
\* or a record that cannot be read
PassiveFailed ==
    \/ response.kind = "error"
    \/ /\ response.kind = "resp"
       /\ \/ response.status # 200
          \/ ~response.json
          \/ \E k \in 1..Len(response.data) : ~response.data[k].ok

\* C9: a passive-source failure of any kind never raises to the caller and
\* never aborts the run: the call goes on to return, and the returned set
\* holds every name added by the wordlist probes and by the records parsed
\* before the failure.
C9_PassiveFailureSwallowed ==
    PassiveFailed =>
        /\ error = "none"
        /\ pc \in {"save", "returned"}
        /\ Confirmed \cup PassiveNames \subseteq subdomains
        /\ pc = "returned" => Confirmed \cup PassiveNames \subseteq result

\* C9 witness: the third record is unreadable after one was added, and a
\* wordlist name was confirmed before: both names are returned
C9_Witness ==
    /\ pc = "returned"
    /\ PassiveFailed
    /\ response.status = 200
    /\ result = { <<"w", ".", "e", ".", "c">>, <<"s", ".", "e", ".", "c">> }

\* C10: every kind of passive-source failure (network error, non-200 status,
\* parse error) makes enumerate_subdomains log a warning.
C10_EveryFailureWarns ==
    PassiveFailed => warned >= 1


\* the passive source answered 200 with a body whose records can all be read
PassiveAnswered ==
    /\ response.kind = "resp"
    /\ response.status = 200
    /\ response.json
    /\ \A k \in 1..Len(response.data) : response.data[k].ok

\* name, lower-cased (computed apart from the model's Lower)
Lowered(name) == [k \in 1..Len(name) |-> LowerChar(name[k])]

\* name ends with "." + domain (computed apart from the model's EndsWith)
UnderDomain(name) ==
    \E k \in 1..Len(name) :
        /\ name[k] = "."
        /\ SubSeq(name, k + 1, Len(name)) = Domain
        /\ Len(name) - k = Len(Domain)

\* C11: on a non-error passive response a record is added to the Subdomain
\* Set, lower-cased, if and only if its lower-cased name ends with "." +
\* domain; a record with any other suffix is never added.
C11_PassiveSuffixFilter ==
    PassiveAnswered =>
        \A k \in 1..Len(response.data) :
            LET low == Lowered(response.data[k].name_value)
            IN  /\ low \in subdomains <=> UnderDomain(low)
                /\ pc = "returned" => (low \in result <=> UnderDomain(low))

\* C11 witness (scenario C): of the records "other.net" and one under the
\* domain, only the second is in the returned set
C11_Witness ==
    /\ pc = "returned"
    /\ PassiveAnswered
    /\ response.data = <<Entry(<<"o", ".", "n">>),
                         Entry(<<"m", ".", "e", ".", "c">>)>>
    /\ <<"m", ".", "e", ".", "c">> \in result
    /\ <<"o", ".", "n">> \notin result

\* C12: for a port whose SYN probe was classified Open the second (ACK) probe
\* never removes or prevents the entry, whatever it gives (reply, no reply,
\* exception): the port is recorded "detected" if a TCP reply to the second
\* probe was seen and "unknown" otherwise.
C12_AckOnlyLabels ==
    \A i \in 1..Len(fut) :
        mode = "scan" /\ fut[i].st = "finished" /\ fut[i].syn = Pkt(TRUE, 18) =>
            /\ ports[i] \in DOMAIN open_ports
            /\ open_ports[ports[i]] =
                 IF fut[i].ack.kind = "pkt" /\ fut[i].ack.tcp
                 THEN "detected" ELSE "unknown"
            /\ pc = "returned" => /\ ports[i] \in DOMAIN result
                                  /\ result[ports[i]] = open_ports[ports[i]]

\* C12 witness (scenario B): two open ports, the second probe of one
\* unanswered and of the other raising, both returned as "unknown"
C12_Witness ==
    /\ pc = "returned"
    /\ mode = "scan"
    /\ NTasks = 2
    /\ fut[1].syn = Pkt(TRUE, 18) /\ fut[1].ack = NoReply
    /\ fut[2].syn = Pkt(TRUE, 18) /\ fut[2].ack = Raises
    /\ result = (ports[1] :> "unknown") @@ (ports[2] :> "unknown")


\* --threads was given and is not a positive number
InvalidLimit == args.threads # <<>> /\ args.threads[1] <= 0

\* C13: a concurrency limit <= 0 (0 included) is detected before any probe
\* task is dispatched and surfaced as a hard error that aborts the run: no
\* probe is dispatched or run under it and the call does not return normally.
C13_InvalidLimitRejected ==
    InvalidLimit =>
        /\ fut = <<>>
        /\ Active = {}
        /\ pc # "returned"

\* C14: every name of the set enumerate_subdomains returns is lower-cased,
\* whatever the case of the wordlist labels and of the passive records.
C14_AllLowerCased ==
    pc = "returned" /\ mode = "enum" =>
        \A n \in result : Lowered(n) = n


\* the range the scan is to cover: [1, 1024] with --top-ports, else [0, 65535]
Covered(p) ==
    IF args.top_ports THEN 1 <= p /\ p <= 1024 ELSE 0 <= p /\ p <= 65535

\* the tasks submitted for port p
TasksOf(p) == { i \in 1..Len(fut) : ports[i] = p }

\* C15: scan_ports performs exactly one SYN check task for every port of the
\* selected range ([1, 1024] with --top-ports, else [0, 65535], port 0
\* included) and none for a port outside it: when the pool has been left
\* every port of the range has one task, run once, whose SYN probe was sent.
C15_OneSynTaskPerPort ==
    /\ mode = "scan" => \A p \in net.tracked :
          /\ Cardinality(TasksOf(p)) <= 1
          /\ ~Covered(p) => TasksOf(p) = {}
          /\ \A i \in TasksOf(p) : fut[i].runs <= 1
    /\ mode = "scan" /\ pc \in {"table", "returned"} =>
          /\ Len(fut) = Len(ports)
          /\ \A p \in net.tracked :
                Covered(p) => \E i \in TasksOf(p) :
                                 /\ fut[i].runs = 1
                                 /\ fut[i].st = "finished"
                                 /\ fut[i].syn # Unsent

\* C15 witness: a full scan has returned after probing port 0 and port
\* 65535, each by one task
C15_Witness ==
    /\ pc = "returned"
    /\ ~args.top_ports
    /\ net.tracked = {0, 65535}
    /\ Len(fut) = 2
    /\ \A i \in 1..2 : fut[i].runs = 1 /\ fut[i].syn # Unsent
    /\ ports = <<0, 65535>>


\* the wordlist file is absent, or holds no label (no line, or blank lines)
EmptyOrMissing ==
    \/ wordfile.kind = "missing"
    \/ /\ wordfile.kind = "file"
       /\ \A k \in 1..Len(wordfile.lines) :
             \A j \in 1..Len(wordfile.lines[k]) : wordfile.lines[k][j] = " "

\* the request to the passive source raised (no connection, timeout)
Unreachable == response.kind = "error"

\* the run is neither interrupted nor, where the pool is built, misconfigured
Regular == ~cancelled /\ (wordfile.kind = "file" => Limit > 0)

\* C16: in a run of enumerate_subdomains with a valid limit and no interrupt,
\* an empty or missing wordlist is not an error and adds no name, an
\* unreachable passive source adds no name and leaves the confirmed
\* candidates in place, and with both the returned set is empty.
C16_AbsentSourcesGiveEmptySet ==
    mode = "enum" /\ Regular =>
        /\ EmptyOrMissing => /\ error = "none"
                             /\ pc # "raised"
                             /\ subdomains \subseteq PassiveNames
        /\ pc = "returned" /\ EmptyOrMissing => result = PassiveNames
        /\ pc = "returned" /\ Unreachable => result = Confirmed
        /\ pc = "returned" /\ EmptyOrMissing /\ Unreachable => result = {}

\* C16 witness: no wordlist file, the passive source unreachable, and the
\* empty set returned without an error
C16_Witness ==
    /\ mode = "enum"
    /\ pc = "returned"
    /\ wordfile.kind = "missing"
    /\ Unreachable
    /\ error = "none"
    /\ result = {}


\* task i's SYN probe was classified Open by scan_port
ClassifiedOpen(i) == fut[i].syn = Pkt(TRUE, 18)

\* the resolver confirmed the candidate of task i
ConfirmedTask(i) ==
    LET n == subs[i] \o <<".">> \o Domain
    IN  n \in DOMAIN resolved /\ resolved[n] > 0

\* C17: no insertion into the shared set or map is lost, in any interleaving
\* of the worker threads: once a task has finished, the port it classified
\* Open is in the map and the candidate it saw confirmed is in the set, and
\* they are in the returned map and set.
C17_NoInsertionLost ==
    /\ mode = "scan" =>
          \A i \in 1..Len(fut) :
              fut[i].st = "finished" /\ ClassifiedOpen(i) =>
                  /\ ports[i] \in DOMAIN open_ports
                  /\ pc = "returned" => ports[i] \in DOMAIN result
    /\ mode = "enum" =>
          \A i \in 1..Len(fut) :
              fut[i].st = "finished" /\ ConfirmedTask(i) =>
                  /\ (subs[i] \o <<".">> \o Domain) \in subdomains
                  /\ pc = "returned" =>
                         (subs[i] \o <<".">> \o Domain) \in result

\* C17 witness: two worker threads ran the two tasks of an enumeration, both
\* candidates were confirmed, and both are in the returned set
C17_Witness ==
    /\ mode = "enum"
    /\ pc = "returned"
    /\ nThreads = 2
    /\ Len(fut) = 2
    /\ ConfirmedTask(1) /\ ConfirmedTask(2)
    /\ subs[1] # subs[2]
    /\ Cardinality(Confirmed) = 2
    /\ Confirmed \subseteq result


\* C18: the SYN probe classifies the port Open exactly when the reply is a
\* TCP reply carrying the SYN and the ACK flag, whatever other flag bits it
\* carries, and not open for no reply, an RST reply or a reply without a TCP
\* layer: a finished task has recorded its port if and only if it was so.
C18_SynAckMeansOpen ==
    mode = "scan" =>
        \A i \in 1..Len(fut) :
            fut[i].st = "finished" =>
                (RepliedSynAck(fut[i].syn) <=> ports[i] \in DOMAIN open_ports)


\* C19: during a run of enumerate_subdomains the Subdomain Set only grows:
\* every step leaves it unchanged or adds names, a step of a probe task adds
\* at most one, and the set returned holds every name that was added.
C19_OnlyGrows ==
    [][mode = "enum" =>
          /\ subdomains \subseteq subdomains'
          /\ pc = "pool" => Cardinality(subdomains' \ subdomains) <= 1
          /\ pc' = "returned" => subdomains \subseteq result']_vars

\* C19 witness: the returned set holds a wordlist candidate the resolver
\* confirmed and, added after it, a name of the passive source
C19_Witness ==
    /\ mode = "enum"
    /\ pc = "returned"
    /\ Confirmed # {}
    /\ PassiveNames \ Confirmed # {}
    /\ Confirmed \cup PassiveNames \subseteq result


\* C20: in every state of a run of enumerate_subdomains every element of the
\* Subdomain Set ends with "." + domain, whether a wordlist probe or the
\* passive source added it, and so does every element of the returned set.
C20_AllUnderDomain ==
    mode = "enum" =>
        /\ \A n \in subdomains : UnderDomain(n)
        /\ pc = "returned" => \A n \in result : UnderDomain(n)

\* C20 witness: before the return the set holds a name a wordlist probe
\* added and a name the passive source added
C20_Witness ==
    /\ mode = "enum"
    /\ pc = "save"
    /\ subs # <<>>
    /\ <<"w", ".", "e", ".", "c">> \in Confirmed \cap subdomains
    /\ <<"s", ".", "e", ".", "c">> \in PassiveNames \cap subdomains

====
